---- MODULE Spec2Model ----
(***************************************************************************)
(* A model of rsiseg/models/segmentors_old/fmda_adaptor.py (FMDAAdaptor):  *)
(* sliding-window and whole-image inference, the inference wrapper with    *)
(* its flip handling, simple_test / aug_test, the metadata transform and   *)
(* the loss / state bookkeeping of train_step.                             *)
(*                                                                         *)
(* Tensors are records [n, c, h, w, v] with v a function on the 0-based    *)
(* index tuples <<n, c, y, x>>, as in the code.  Real numbers are exact    *)
(* rationals <<num, den>> in lowest terms.                                 *)
(***************************************************************************)
EXTENDS Integers, Sequences, FiniteSets, TLC

VARIABLES self, call, pc, loc, ret

vars == <<self, call, pc, loc, ret>>

(***************************************************************************)
(* Bounds of the model                                                     *)
(***************************************************************************)
MaxImg == 4
MaxCrop == 3
MaxStride == 3
NumClasses == 2

None == "None"

(***************************************************************************)
(* Exact rational arithmetic                                               *)
(***************************************************************************)
Abs(x) == IF x < 0 THEN -x ELSE x

Min(a, b) == IF a < b THEN a ELSE b

Max(a, b) == IF a > b THEN a ELSE b

RECURSIVE GCD(_, _)
GCD(a, b) == IF b = 0 THEN a ELSE GCD(b, a % b)

RNorm(num, den) == LET g == GCD(Abs(num), den) IN <<num \div g, den \div g>>

RInt(k) == <<k, 1>>

RAdd(a, b) == RNorm(a[1] * b[2] + b[1] * a[2], a[2] * b[2])

RSub(a, b) == RNorm(a[1] * b[2] - b[1] * a[2], a[2] * b[2])

\* a * (k / m), m > 0
RScale(a, k, m) == RNorm(a[1] * k, a[2] * m)

RLess(a, b) == a[1] * b[2] < b[1] * a[2]

\* Python's max(a - b + c - 1, 0) // c and friends use floor division; so does \div.
CeilDiv(a, b) == -((-a) \div b)

(***************************************************************************)
(* Tensors                                                                 *)
(***************************************************************************)
Idx(n, c, h, w) == (0 .. n - 1) \X (0 .. c - 1) \X (0 .. h - 1) \X (0 .. w - 1)

Tensor(n, c, h, w, F(_, _, _, _)) ==
    [n |-> n, c |-> c, h |-> h, w |-> w,
     v |-> [i \in Idx(n, c, h, w) |-> F(i[1], i[2], i[3], i[4])]]

\* img.new_zeros(shape)
new_zeros(n, c, h, w, zero) == Tensor(n, c, h, w, LAMBDA a, b, y, x : zero)

\* t[:, :, y1:y2, x1:x2] for non-negative bounds: Python clamps to the shape
\* and an inverted range is empty.
Slice(t, y1, y2, x1, x2) ==
    LET a == Min(y1, t.h)
        b == Min(y2, t.h)
        l == Min(x1, t.w)
        r == Min(x2, t.w)
    IN Tensor(t.n, t.c, Max(b - a, 0), Max(r - l, 0),
              LAMBDA n, c, y, x : t.v[<<n, c, a + y, l + x>>])

\* F.pad(t, (left, right, top, bottom)) with zeros
Pad(t, left, right, top, bottom) ==
    Tensor(t.n, t.c, top + t.h + bottom, left + t.w + right,
           LAMBDA n, c, y, x :
               IF y >= top /\ y < top + t.h /\ x >= left /\ x < left + t.w
               THEN t.v[<<n, c, y - top, x - left>>]
               ELSE RInt(0))

\* a += b on tensors of one shape
TAdd(a, b) == Tensor(a.n, a.c, a.h, a.w,
                     LAMBDA n, c, y, x : RAdd(a.v[<<n, c, y, x>>], b.v[<<n, c, y, x>>]))

\* preds / count_mat, the count broadcast over the class axis
TDivCount(p, cnt) ==
    Tensor(p.n, p.c, p.h, p.w,
           LAMBDA n, c, y, x : RScale(p.v[<<n, c, y, x>>], 1, cnt.v[<<n, 0, y, x>>]))

\* t.flip(dims=(3,)) and t.flip(dims=(2,))
FlipW(t) == Tensor(t.n, t.c, t.h, t.w, LAMBDA n, c, y, x : t.v[<<n, c, y, t.w - 1 - x>>])

FlipH(t) == Tensor(t.n, t.c, t.h, t.w, LAMBDA n, c, y, x : t.v[<<n, c, t.h - 1 - y, x>>])

RECURSIVE SumTo(_, _)
SumTo(f(_), k) == IF k < 0 THEN 0 ELSE f(k) + SumTo(f, k - 1)

(***************************************************************************)
(* Bilinear resampling (torch.nn.functional.interpolate, mode='bilinear')  *)
(***************************************************************************)
\* Source coordinate of output index i as a fraction <<num, den>>, clamped at 0.
\* align_corners=False: (i + 1/2) * in / out - 1/2; True: i * (in - 1) / (out - 1).
SrcCoord(i, in, out, align) ==
    IF align
    THEN IF out > 1 THEN <<i * (in - 1), out - 1>> ELSE <<0, 1>>
    ELSE <<Max((2 * i + 1) * in - out, 0), 2 * out>>

\* One bilinear sample; sy, sx are source coordinates <<num, den>>.
Bilinear(t, n, c, sy, sx) ==
    LET y0 == Min(sy[1] \div sy[2], t.h - 1)
        x0 == Min(sx[1] \div sx[2], t.w - 1)
        y1 == Min(y0 + 1, t.h - 1)
        x1 == Min(x0 + 1, t.w - 1)
        ly == sy[1] - y0 * sy[2]
        lx == sx[1] - x0 * sx[2]
        d  == sy[2] * sx[2]
    IN RAdd(RAdd(RScale(t.v[<<n, c, y0, x0>>], (sy[2] - ly) * (sx[2] - lx), d),
                 RScale(t.v[<<n, c, y0, x1>>], (sy[2] - ly) * lx, d)),
            RAdd(RScale(t.v[<<n, c, y1, x0>>], ly * (sx[2] - lx), d),
                 RScale(t.v[<<n, c, y1, x1>>], ly * lx, d)))

\* rsiseg.ops.resize(input, size=(oh, ow), mode='bilinear', align_corners=align)
resize(t, oh, ow, align) ==
    Tensor(t.n, t.c, oh, ow,
           LAMBDA n, c, y, x :
               Bilinear(t, n, c, SrcCoord(y, t.h, oh, align), SrcCoord(x, t.w, ow, align)))

(***************************************************************************)
(* The network: backbone, optional neck and decode head are collaborators  *)
(* with fixed contracts.  The stand-in is deterministic and depends on the *)
(* whole input it is given (a global context term), so that a crop and the *)
(* full image decode differently, as they do for a real network.           *)
(***************************************************************************)
Context(img, n) ==
    SumTo(LAMBDA y : SumTo(LAMBDA x : img.v[<<n, 0, y, x>>], img.w - 1), img.h - 1)

backbone(img) ==
    LET ctx == [n \in 0 .. img.n - 1 |-> Context(img, n)]
    IN << Tensor(img.n, 1, img.h, img.w,
                 LAMBDA n, c, y, x : RInt(2 * img.v[<<n, 0, y, x>>] + ctx[n])) >>

neck(x) ==
    [k \in DOMAIN x |->
        Tensor(x[k].n, x[k].c, x[k].h, x[k].w,
               LAMBDA n, c, y, xx : RAdd(x[k].v[<<n, c, y, xx>>], RInt(1)))]

extract_feat(img) ==
    LET x == backbone(img) IN IF self.with_neck THEN neck(x) ELSE x

\* decode_head.forward_test: per-pixel class logits from the feature map
decode_head_forward_test(x) ==
    Tensor(x[1].n, self.num_classes, x[1].h, x[1].w,
           LAMBDA n, c, y, xx : RSub(RScale(x[1].v[<<n, 0, y, xx>>], c + 1, 1), RInt(3 * c)))

encode_decode(img) ==
    LET x == extract_feat(img)
        out == resize(decode_head_forward_test(x), img.h, img.w, self.align_corners)
    IN [out |-> out, states |-> [feats |-> x, seg_logits |-> out]]

(***************************************************************************)
(* slide_inference                                                         *)
(***************************************************************************)
\* Faulty variants of the grid computation: floor instead of ceiling, no
\* clamp at zero, no final + 1.
Grids_NoCeil(img_dim, crop_dim, stride_dim) ==
    Max(img_dim - crop_dim, 0) \div stride_dim + 1

Grids_NoClamp(img_dim, crop_dim, stride_dim) ==
    (img_dim - crop_dim + stride_dim - 1) \div stride_dim + 1

Grids_NoPlusOne(img_dim, crop_dim, stride_dim) ==
    Max(Max(img_dim - crop_dim + stride_dim - 1, 0) \div stride_dim, 1)

\* max(img - crop + stride - 1, 0) // stride + 1
Grids(img_dim, crop_dim, stride_dim) ==
    Max(img_dim - crop_dim + stride_dim - 1, 0) \div stride_dim + 1

\* The crop window [lo, hi) of grid index idx along one axis.
Window(idx, img_dim, crop_dim, stride_dim) ==
    LET hi == Min(idx * stride_dim + crop_dim, img_dim)
    IN [lo |-> Max(hi - crop_dim, 0), hi |-> hi]

\* Faulty variant: the window is marked (= 1) instead of counted (+= 1).
CountCell_Assign(count_mat, wy, wx) ==
    Tensor(count_mat.n, count_mat.c, count_mat.h, count_mat.w,
           LAMBDA n, c, y, x :
               IF y >= wy.lo /\ y < wy.hi /\ x >= wx.lo /\ x < wx.hi
               THEN 1
               ELSE count_mat.v[<<n, c, y, x>>])

\* count_mat[:, :, y1:y2, x1:x2] += 1
CountCell(count_mat, wy, wx) ==
    Tensor(count_mat.n, count_mat.c, count_mat.h, count_mat.w,
           LAMBDA n, c, y, x :
               IF y >= wy.lo /\ y < wy.hi /\ x >= wx.lo /\ x < wx.hi
               THEN count_mat.v[<<n, c, y, x>>] + 1
               ELSE count_mat.v[<<n, c, y, x>>])

\* preds += F.pad(crop_seg_logit, (x1, W - x2, y1, H - y2))
AccumulateCell(preds, img, wy, wx) ==
    LET crop_img == Slice(img, wy.lo, wy.hi, wx.lo, wx.hi)
        crop_seg_logit == encode_decode(crop_img).out
    IN TAdd(preds, Pad(crop_seg_logit, wx.lo, preds.w - wx.hi, wy.lo, preds.h - wy.hi))

HasZero(count_mat) == \E i \in DOMAIN count_mat.v : count_mat.v[i] = 0


(***************************************************************************)
(* Inputs                                                                  *)
(***************************************************************************)
\* An image batch (N, 1, H, W) with a fixed, position-dependent content.
Image(n, h, w) == Tensor(n, 1, h, w, LAMBDA b, c, y, x : (b + 2 * y + 3 * x) % 4)

\* img_meta: one dict per sample
Meta(ori_shape, flip, flip_direction) ==
    [ori_shape |-> ori_shape, flip |-> flip, flip_direction |-> flip_direction]

\* The frame of the running call: the arguments of inference /
\* slide_inference (img, img_meta, rescale) and the locals of the methods.
NoLoc ==
    [img |-> None, img_meta |-> None, rescale |-> None,
     h_grids |-> None, w_grids |-> None, h_idx |-> None, w_idx |-> None,
     preds |-> None, count_mat |-> None, cells |-> <<>>,
     seg_logit |-> None, states |-> None, output |-> None, i |-> 0, acc |-> None,
     feats_trg |-> None, x_src |-> None, x_trg |-> None, losses |-> None]

Returned(val) == [err |-> None, val |-> val]

Raised(err) == [err |-> err, val |-> None]

(***************************************************************************)
(* slide_inference, one grid cell per step                                 *)
(***************************************************************************)
SlideEnter ==
    /\ pc = "slide_inference"
    /\ loc' = [loc EXCEPT
                 !.h_grids = Grids(loc.img.h, self.test_cfg.crop_size[1], self.test_cfg.stride[1]),
                 !.w_grids = Grids(loc.img.w, self.test_cfg.crop_size[2], self.test_cfg.stride[2]),
                 !.preds = new_zeros(loc.img.n, self.num_classes, loc.img.h, loc.img.w, RInt(0)),
                 !.count_mat = new_zeros(loc.img.n, 1, loc.img.h, loc.img.w, 0),
                 !.h_idx = 0, !.w_idx = 0, !.cells = <<>>]
    /\ pc' = "slide_loop"
    /\ UNCHANGED <<self, call, ret>>

SlideCell ==
    /\ pc = "slide_loop"
    /\ loc.h_idx < loc.h_grids
    /\ LET wy == Window(loc.h_idx, loc.img.h, self.test_cfg.crop_size[1], self.test_cfg.stride[1])
           wx == Window(loc.w_idx, loc.img.w, self.test_cfg.crop_size[2], self.test_cfg.stride[2])
           last == loc.w_idx + 1 >= loc.w_grids
       IN loc' = [loc EXCEPT
                    !.preds = AccumulateCell(loc.preds, loc.img, wy, wx),
                    !.count_mat = CountCell(loc.count_mat, wy, wx),
                    !.cells = Append(loc.cells, [h_idx |-> loc.h_idx, w_idx |-> loc.w_idx,
                                                 wy |-> wy, wx |-> wx]),
                    !.w_idx = IF last THEN 0 ELSE loc.w_idx + 1,
                    !.h_idx = IF last THEN loc.h_idx + 1 ELSE loc.h_idx]
    /\ UNCHANGED <<self, call, pc, ret>>

\* The tail of slide_inference: the coverage assertion, the average and the
\* optional rescale to ori_shape[:2].
SlideResult(preds, count_mat) ==
    LET avg == TDivCount(preds, count_mat)
        ori == loc.img_meta[1].ori_shape
    IN IF loc.rescale THEN resize(avg, ori[1], ori[2], self.align_corners) ELSE avg

SlideFinish ==
    /\ pc = "slide_loop"
    /\ loc.h_idx >= loc.h_grids
    /\ IF HasZero(loc.count_mat)
       THEN /\ pc' = "done"
            /\ ret' = Raised("AssertionError")
            /\ loc' = loc
       ELSE IF call.entry = "slide_inference"
       THEN /\ pc' = "done"
            /\ ret' = Returned(SlideResult(loc.preds, loc.count_mat))
            /\ loc' = loc
       ELSE /\ pc' = "inference_softmax"
            /\ loc' = [loc EXCEPT !.seg_logit = SlideResult(loc.preds, loc.count_mat),
                                  !.states = <<>>]
            /\ ret' = ret
    /\ UNCHANGED <<self, call>>

(***************************************************************************)
(* whole_inference                                                         *)
(***************************************************************************)
whole_inference(img, img_meta, rescale, onnx) ==
    LET e == encode_decode(img)
        size == IF onnx THEN <<img.h, img.w>> ELSE img_meta[1].ori_shape
    IN [seg_logit |-> IF rescale
                      THEN resize(e.out, size[1], size[2], self.align_corners)
                      ELSE e.out,
        states |-> e.states]

(***************************************************************************)
(* Specification of slide_inference called directly                        *)
(***************************************************************************)
OriShapeSlide == <<2, 3, 3>>

\* The geometries slide_inference is run on.
SlideGeometries ==
    { [img |-> <<h, w>>, crop |-> <<ch, cw>>, stride |-> <<sh, sw>>] :
        h \in 1 .. MaxImg, w \in 1 .. MaxImg, ch \in 1 .. MaxCrop, cw \in 1 .. MaxCrop,
        sh \in 1 .. MaxStride, sw \in 1 .. MaxStride }

InitSlide ==
    /\ \E g \in SlideGeometries, rescale \in BOOLEAN, onnx \in BOOLEAN :
          /\ self = [test_cfg |-> [mode |-> "slide", stride |-> g.stride,
                                   crop_size |-> g.crop],
                     num_classes |-> NumClasses, align_corners |-> FALSE,
                     with_neck |-> FALSE]
          /\ call = [entry |-> "slide_inference", img |-> Image(1, g.img[1], g.img[2]),
                     img_meta |-> << Meta(OriShapeSlide, FALSE, None) >>,
                     rescale |-> rescale, onnx |-> onnx]
    /\ pc = "slide_inference"
    /\ loc = [NoLoc EXCEPT !.img = call.img, !.img_meta = call.img_meta,
                           !.rescale = call.rescale]
    /\ ret = Returned(None)

NextSlide == SlideEnter \/ SlideCell \/ SlideFinish

SpecSlide == InitSlide /\ [][NextSlide]_vars


(***************************************************************************)
(* inference, simple_test, aug_test                                        *)
(***************************************************************************)
Classes(t) == 0 .. t.c - 1

\* F.softmax(seg_logit, dim=1).  exp is not computed: the probability of
\* class c at a pixel, 1 / sum_k exp(l_k - l_c), is held as the vector of
\* logit differences <<l_k - l_c>>_k that determines it.
softmax(t) ==
    Tensor(t.n, t.c, t.h, t.w,
           LAMBDA n, c, y, x : [k \in Classes(t) |-> RSub(t.v[<<n, k, y, x>>], t.v[<<n, c, y, x>>])])

\* p_c >= p_k for every k: no logit difference l_k - l_c is positive.
IsMaxProb(p) == \A k \in DOMAIN p : p[k][1] <= 0

\* output.argmax(dim=1): the first class of maximal probability, per pixel;
\* .cpu().numpy() and list(...) unravel the batch axis.
argmax(t) ==
    [n \in 0 .. t.n - 1 |->
        [q \in (0 .. t.h - 1) \X (0 .. t.w - 1) |->
            CHOOSE c \in Classes(t) :
                /\ IsMaxProb(t.v[<<n, c, q[1], q[2]>>])
                /\ \A k \in 0 .. c - 1 : ~IsMaxProb(t.v[<<n, k, q[1], q[2]>>])]]

seg_pred_list(t) == [k \in 1 .. t.n |-> argmax(t)[k - 1]]

\* x[idx] for a batch tensor x
Sample(t, idx) ==
    [c |-> t.c, h |-> t.h, w |-> t.w,
     v |-> [i \in (0 .. t.c - 1) \X (0 .. t.h - 1) \X (0 .. t.w - 1) |->
               t.v[<<idx, i[1], i[2], i[3]>>]]]

\* The unwrapped metadata list: a DataContainer holds it as data[0].
Unwrap(img_meta) == IF img_meta.type = "DataContainer" THEN img_meta.data[1] ELSE img_meta.data

\* How inference hands (output, states) back to the method that called it.
InferenceReturn(output, states) ==
    CASE call.entry = "inference" ->
            /\ pc' = "done"
            /\ ret' = Returned(<<output, states>>)
            /\ loc' = [loc EXCEPT !.output = output, !.states = states]
      [] call.entry = "simple_test" ->
            /\ pc' = "simple_test_argmax"
            /\ ret' = ret
            /\ loc' = [loc EXCEPT !.output = output, !.states = states]
      [] call.entry = "aug_test" ->
            /\ pc' = "aug_test_loop"
            /\ ret' = ret
            /\ loc' = [loc EXCEPT !.output = output, !.states = states]

\* inference up to the choice of strategy (lines 328-339)
InferenceEnter ==
    /\ pc = "inference"
    /\ IF self.test_cfg.mode \notin {"slide", "whole"}
       THEN /\ pc' = "done" /\ ret' = Raised("AssertionError") /\ loc' = loc
       ELSE LET img_meta == Unwrap(loc.img_meta)
                ori_shape == img_meta[1].ori_shape
            IN IF \E k \in DOMAIN img_meta : img_meta[k].ori_shape # ori_shape
               THEN /\ pc' = "done" /\ ret' = Raised("AssertionError") /\ loc' = loc
               ELSE IF self.test_cfg.mode = "slide"
               THEN /\ pc' = "slide_inference"
                    /\ loc' = [loc EXCEPT !.img_meta = img_meta]
                    /\ ret' = ret
               ELSE LET r == whole_inference(loc.img, img_meta, loc.rescale, call.onnx)
                    IN /\ pc' = "inference_softmax"
                       /\ loc' = [loc EXCEPT !.img_meta = img_meta,
                                             !.seg_logit = r.seg_logit, !.states = r.states]
                       /\ ret' = ret
    /\ UNCHANGED <<self, call>>

\* softmax and the flip test (lines 341-344): a flipped view stops in
\* pdb.set_trace() before anything is flipped.
InferenceSoftmax ==
    /\ pc = "inference_softmax"
    /\ LET output == softmax(loc.seg_logit)
       IN IF loc.img_meta[1].flip
          THEN /\ pc' = "pdb"
               /\ loc' = [loc EXCEPT !.output = output]
               /\ ret' = ret
          ELSE InferenceReturn(output, loc.states)
    /\ UNCHANGED <<self, call>>

\* The flip itself (lines 345-350)
Unflip(output, flip_direction) ==
    IF flip_direction = "horizontal" THEN FlipW(output) ELSE FlipH(output)

\* The debugger prompt is answered with "continue": lines 345-352 run.
PdbContinue ==
    /\ pc = "pdb"
    /\ LET flip_direction == loc.img_meta[1].flip_direction
       IN IF flip_direction \notin {"horizontal", "vertical"}
          THEN /\ pc' = "done" /\ ret' = Raised("AssertionError") /\ loc' = loc
          ELSE InferenceReturn(Unflip(loc.output, flip_direction), loc.states)
    /\ UNCHANGED <<self, call>>

\* The debugger prompt is answered with "quit" (or its input is at end of
\* file): bdb.BdbQuit propagates out of inference.
PdbQuit ==
    /\ pc = "pdb"
    /\ pc' = "done"
    /\ ret' = Raised("BdbQuit")
    /\ UNCHANGED <<self, call, loc>>

\* simple_test after its call of inference (lines 357-373)
SimpleTestResult(output, states, onnx) ==
    IF onnx
    THEN Returned([unsqueezed |-> argmax(output)])
    ELSE IF output.n > 0 /\ ("feats" \notin DOMAIN states \/ "seg_logits" \notin DOMAIN states)
    THEN Raised("KeyError")
    ELSE Returned(<< seg_pred_list(output),
                     [k \in 1 .. output.n |->
                         [feats |-> [j \in DOMAIN states.feats |-> Sample(states.feats[j], k - 1)],
                          seg_logits |-> Sample(states.seg_logits, k - 1)]] >>)

SimpleTest ==
    /\ pc = "simple_test_argmax"
    /\ pc' = "done"
    /\ ret' = SimpleTestResult(loc.output, loc.states, call.onnx)
    /\ UNCHANGED <<self, call, loc>>

\* aug_test: assert rescale, then inference on imgs[0] (lines 381-383)
AugTestEnter ==
    /\ pc = "aug_test"
    /\ IF ~call.rescale
       THEN /\ pc' = "done" /\ ret' = Raised("AssertionError") /\ loc' = loc
       ELSE /\ pc' = "inference"
            /\ loc' = [loc EXCEPT !.img = call.imgs[1], !.img_meta = call.img_metas[1],
                                  !.rescale = call.rescale, !.i = 0]
            /\ ret' = ret
    /\ UNCHANGED <<self, call>>

\* seg_logit = inference(...) / seg_logit += cur_seg_logit.  inference
\* returns the tuple (output, states), and += on tuples concatenates.
AugTestLoop ==
    /\ pc = "aug_test_loop"
    /\ LET got == <<loc.output, loc.states>>
           seg_logit == IF loc.i = 0 THEN got ELSE loc.acc \o got
           i == loc.i + 1
       IN IF i < Len(call.imgs)
          THEN /\ pc' = "inference"
               /\ loc' = [loc EXCEPT !.acc = seg_logit, !.i = i,
                                     !.img = call.imgs[i + 1],
                                     !.img_meta = call.img_metas[i + 1]]
          ELSE /\ pc' = "aug_test_div"
               /\ loc' = [loc EXCEPT !.acc = seg_logit, !.i = i]
    /\ UNCHANGED <<self, call, ret>>

\* seg_logit /= len(imgs): seg_logit is a tuple, which has no division, so
\* the statement raises TypeError and lines 388-392 are never run.
AugTestDivide ==
    /\ pc = "aug_test_div"
    /\ pc' = "done"
    /\ ret' = Raised("TypeError")
    /\ UNCHANGED <<self, call, loc>>


(***************************************************************************)
(* Specification of the test entry points                                  *)
(***************************************************************************)
MaxBatch == 2
MaxTestImg == 2
MaxViews == 2

TestConfigs ==
    { [mode |-> "whole", stride |-> <<1, 1>>, crop_size |-> <<2, 2>>],
      [mode |-> "slide", stride |-> <<1, 1>>, crop_size |-> <<2, 2>>],
      [mode |-> "slide", stride |-> <<2, 2>>, crop_size |-> <<1, 1>>],
      [mode |-> "sliding", stride |-> <<1, 1>>, crop_size |-> <<2, 2>>] }

NetConfigs ==
    { [align_corners |-> FALSE, with_neck |-> FALSE],
      [align_corners |-> TRUE, with_neck |-> TRUE] }

FlipChoices ==
    { [flip |-> FALSE, flip_direction |-> None],
      [flip |-> TRUE, flip_direction |-> "horizontal"],
      [flip |-> TRUE, flip_direction |-> "vertical"],
      [flip |-> TRUE, flip_direction |-> "diagonal"] }

OriShapeA == <<3, 2, 3>>

OriShapeB == <<2, 2, 3>>

\* The metadata of a batch of n samples; with same_ori false the last sample
\* has another ori_shape than the first.
Metas(n, f, same_ori) ==
    [k \in 1 .. n |->
        Meta(IF ~same_ori /\ k = n /\ n > 1 THEN OriShapeB ELSE OriShapeA,
             f.flip, f.flip_direction)]

Wrap(metas, wrapped) ==
    IF wrapped
    THEN [type |-> "DataContainer", data |-> <<metas>>]
    ELSE [type |-> "list", data |-> metas]

NoFlip == [flip |-> FALSE, flip_direction |-> None]

InitTest ==
    /\ \E cfg \in TestConfigs, net \in NetConfigs :
          self = [test_cfg |-> cfg, num_classes |-> NumClasses,
                  align_corners |-> net.align_corners, with_neck |-> net.with_neck]
    /\ \E n \in 1 .. MaxBatch, h \in 1 .. MaxTestImg, w \in 1 .. MaxTestImg,
          f \in FlipChoices, same_ori \in BOOLEAN, wrapped \in BOOLEAN,
          rescale \in BOOLEAN, onnx \in BOOLEAN :
          LET img == Image(n, h, w)
              img_meta == Wrap(Metas(n, f, same_ori), wrapped)
          IN \/ /\ \E entry \in {"inference", "simple_test"} :
                      call = [entry |-> entry, img |-> img, img_meta |-> img_meta,
                              rescale |-> rescale, onnx |-> onnx]
                /\ pc = "inference"
                /\ loc = [NoLoc EXCEPT !.img = img, !.img_meta = img_meta,
                                       !.rescale = rescale]
             \/ /\ \E views \in 1 .. MaxViews :
                      call = [entry |-> "aug_test",
                              imgs |-> [k \in 1 .. views |-> img],
                              img_metas |-> [k \in 1 .. views |->
                                  Wrap(Metas(n, IF k % 2 = 1 THEN f ELSE NoFlip, same_ori),
                                       wrapped)],
                              rescale |-> rescale, onnx |-> onnx]
                /\ pc = "aug_test"
                /\ loc = NoLoc
    /\ ret = Returned(None)

NextTest ==
    \/ InferenceEnter
    \/ SlideEnter
    \/ SlideCell
    \/ SlideFinish
    \/ InferenceSoftmax
    \/ PdbContinue
    \/ PdbQuit
    \/ SimpleTest
    \/ AugTestEnter
    \/ AugTestLoop
    \/ AugTestDivide

SpecTest == InitTest /\ [][NextTest]_vars

(***************************************************************************)
(* transform_by_metas                                                      *)
(***************************************************************************)
\* F.interpolate(data, scale_factor=(sy, sx), mode='bilinear'): the first
\* factor scales dim 2 (height), the second dim 3 (width); the output size
\* is floor(size * factor), and the source coordinate of output index i is
\* (i + 1/2) / factor - 1/2, clamped at 0.  Factors are fractions <<p, q>>.
ScaledSize(size, f) == (size * f[1]) \div f[2]

ScaleCoord(i, f) == <<Max((2 * i + 1) * f[2] - f[1], 0), 2 * f[1]>>

interpolate(t, sy, sx) ==
    Tensor(t.n, t.c, ScaledSize(t.h, sy), ScaledSize(t.w, sx),
           LAMBDA n, c, y, x : Bilinear(t, n, c, ScaleCoord(y, sy), ScaleCoord(x, sx)))

\* The denominator of the crop ratio 1/8.
CropRatioDen == 8

\* proportional_crop(data, crop_bbox, 1/8.): int(x * scale) on each
\* coordinate of (y1, y2, x1, x2), then the slice.
proportional_crop(data, crop_bbox) ==
    Slice(data, crop_bbox[1] \div CropRatioDen, crop_bbox[2] \div CropRatioDen,
                crop_bbox[3] \div CropRatioDen, crop_bbox[4] \div CropRatioDen)

\* torch.rot90(data, k, dims=[2, 3])
rot90(t, k) ==
    CASE k % 4 = 0 -> t
      [] k % 4 = 1 -> Tensor(t.n, t.c, t.w, t.h,
                             LAMBDA n, c, y, x : t.v[<<n, c, x, t.w - 1 - y>>])
      [] k % 4 = 2 -> Tensor(t.n, t.c, t.h, t.w,
                             LAMBDA n, c, y, x : t.v[<<n, c, t.h - 1 - y, t.w - 1 - x>>])
      [] k % 4 = 3 -> Tensor(t.n, t.c, t.w, t.h,
                             LAMBDA n, c, y, x : t.v[<<n, c, t.h - 1 - x, y>>])

Has(metas, key) == key \in DOMAIN metas

\* Step 1 (lines 404-409).  The call passes scale_factor=(w_scale, h_scale),
\* so w_scale lands on the height axis and h_scale on the width axis.
ScaleStep(data, metas) ==
    IF ~Has(metas, "scale_factor") THEN Returned(data)
    ELSE LET w_scale == metas.scale_factor[1]
             h_scale == metas.scale_factor[2]
         IN IF data.h = 0 \/ data.w = 0
               \/ ScaledSize(data.h, w_scale) = 0 \/ ScaledSize(data.w, h_scale) = 0
            THEN Raised("RuntimeError")
            ELSE Returned(interpolate(data, w_scale, h_scale))

CropStep(data, metas) ==
    IF ~Has(metas, "crop_bbox") THEN Returned(data)
    ELSE IF ~Has(metas, "scale_factor") THEN Raised("KeyError")
    ELSE IF metas.scale_factor[1] # metas.scale_factor[2] THEN Raised("AssertionError")
    ELSE IF ~Has(metas, "ori_shape") THEN Raised("KeyError")
    ELSE Returned(proportional_crop(data, metas.crop_bbox))

RotateStep(data, metas) ==
    IF Has(metas, "rotate_k") THEN rot90(data, metas.rotate_k) ELSE data

FlipStep(data, metas) ==
    LET d == IF Has(metas, "flip_horizontal") /\ metas.flip_horizontal
             THEN FlipW(data) ELSE data
    IN IF Has(metas, "flip_vertical") /\ metas.flip_vertical THEN FlipH(d) ELSE d

transform_by_metas(data, metas) ==
    LET scaled == ScaleStep(data, metas)
    IN IF scaled.err # None THEN scaled
       ELSE LET cropped == CropStep(scaled.val, metas)
            IN IF cropped.err # None THEN cropped
               ELSE Returned(FlipStep(RotateStep(cropped.val, metas), metas))

TransformByMetas ==
    /\ pc = "transform_by_metas"
    /\ pc' = "done"
    /\ ret' = transform_by_metas(call.data, call.metas)
    /\ UNCHANGED <<self, call, loc>>

(***************************************************************************)
(* Specification of transform_by_metas called on its own                   *)
(***************************************************************************)
MaxData == 3

ScaleFactors == { <<1, 2>>, <<1, 1>>, <<2, 1>> }

CropBoxes == { <<0, 8, 0, 16>>, <<8, 20, 0, 8>> }

RotateKs == 0 .. 3

\* A feature tensor (1, 1, H, W) with pairwise different entries.
Features(h, w) == Tensor(1, 1, h, w, LAMBDA n, c, y, x : RInt(y * w + x + 1))

\* A dictionary with one entry, or none.
Entry(key, value) == [k \in {key} |-> value]

Optional(key, values) == { <<>> } \cup { Entry(key, v) : v \in values }

\* dict.update
update(d, e) ==
    [k \in DOMAIN d \cup DOMAIN e |-> IF k \in DOMAIN e THEN e[k] ELSE d[k]]

\* Every metadata dictionary over the recognised keys, with or without
\* ori_shape.
MetaDicts ==
    { update(update(update(update(update(sf, cb), rk), fh), fv), os) :
        sf \in Optional("scale_factor",
                        { <<ws, hs, ws, hs>> : ws \in ScaleFactors, hs \in ScaleFactors }),
        cb \in Optional("crop_bbox", CropBoxes),
        rk \in Optional("rotate_k", RotateKs),
        fh \in Optional("flip_horizontal", BOOLEAN),
        fv \in Optional("flip_vertical", BOOLEAN),
        os \in Optional("ori_shape", { OriShapeA }) }

NoSelf == [test_cfg |-> None, num_classes |-> NumClasses,
           align_corners |-> FALSE, with_neck |-> FALSE]

InitMeta ==
    /\ self = NoSelf
    /\ \E h \in 1 .. MaxData, w \in 1 .. MaxData, metas \in MetaDicts :
          call = [entry |-> "transform_by_metas", data |-> Features(h, w), metas |-> metas]
    /\ pc = "transform_by_metas"
    /\ loc = NoLoc
    /\ ret = Returned(None)

NextMeta == TransformByMetas

SpecMeta == InitMeta /\ [][NextMeta]_vars

(***************************************************************************)
(* train_step                                                              *)
(***************************************************************************)
\* rsiseg.core.add_prefix: every key becomes '<prefix>.<key>'
add_prefix(d, prefix) ==
    [k \in { prefix \o "." \o name : name \in DOMAIN d } |->
        d[CHOOSE name \in DOMAIN d : prefix \o "." \o name = k]]

\* feats_trg.permute(0, 3, 1, 2): (N, H, W, C) to (N, C, H, W)
permute(t) == Tensor(t.n, t.c, t.h, t.w, LAMBDA n, c, y, x : t.v[<<n, y, x, c>>])

\* data.unsqueeze(0) of sample idx of a batch
Unsqueezed(t, idx) == Tensor(1, t.c, t.h, t.w, LAMBDA n, c, y, x : t.v[<<idx, c, y, x>>])

\* torch.stack([d.squeeze(0) for d in parts], dim=0); the parts must agree
\* in shape.
StackOk(parts) ==
    \A k \in DOMAIN parts :
        <<parts[k].c, parts[k].h, parts[k].w>> = <<parts[1].c, parts[1].h, parts[1].w>>

stack(parts) ==
    Tensor(Len(parts), parts[1].c, parts[1].h, parts[1].w,
           LAMBDA n, c, y, x : parts[n + 1].v[<<0, c, y, x>>])

\* Lines 186-191: the precomputed target features, transformed per sample.
TransformFeats(feats_trg, img_metas_trg) ==
    LET f == permute(feats_trg)
        parts == [k \in 1 .. Min(f.n, Len(img_metas_trg)) |->
                     transform_by_metas(Unsqueezed(f, k - 1), img_metas_trg[k])]
        failed == { k \in DOMAIN parts : parts[k].err # None }
    IN IF failed # {}
       THEN Raised(parts[CHOOSE k \in failed : \A j \in failed : k <= j].err)
       ELSE IF ~StackOk([k \in DOMAIN parts |-> parts[k].val])
       THEN Raised("RuntimeError")
       ELSE Returned(stack([k \in DOMAIN parts |-> parts[k].val]))

\* decode_head.forward_train and an auxiliary head's forward_train: the
\* heads are collaborators returning (losses, state); the stand-ins return
\* fixed losses per domain and the logits of the features.
HeadLoss(domain, base) ==
    [loss_seg |-> base + (IF domain = "src" THEN 1 ELSE 2),
     acc_seg |-> base + (IF domain = "src" THEN 3 ELSE 4)]

HeadState(x) == [seg_logits |-> [t |-> decode_head_forward_test(x), requires_grad |-> TRUE]]

\* .detach()
detach(value) == [value EXCEPT !.requires_grad = FALSE]

DetachLogits(state) == [state EXCEPT !.seg_logits = detach(state.seg_logits)]

\* _auxiliary_head_forward_train (lines 107-125)
RECURSIVE AuxList(_, _, _)
AuxList(x, domain, idx) ==
    IF idx < 0 THEN [losses |-> <<>>, states |-> <<>>]
    ELSE LET before == AuxList(x, domain, idx - 1)
             name == "aux_" \o ToString(idx)
         IN [losses |-> update(before.losses, add_prefix(HeadLoss(domain, 10 * (idx + 1)), name)),
             states |-> update(before.states, add_prefix(HeadState(x), name))]

auxiliary_head_forward_train(x, domain) ==
    IF self.auxiliary_head.type = "ModuleList"
    THEN AuxList(x, domain, self.auxiliary_head.len - 1)
    ELSE [losses |-> add_prefix(HeadLoss(domain, 10), "aux"),
          states |-> add_prefix(HeadState(x), "aux")]

with_auxiliary_head == self.auxiliary_head.type # "None"

\* Faulty variant: the similarity loss merged under a prefix of its own.
MergeLosses_PrefixedSim(loss_sim, loss_dec_src, loss_dec_trg) ==
    update(update(add_prefix(loss_sim, "sim"), add_prefix(loss_dec_src, "src.dec")),
           add_prefix(loss_dec_trg, "trg.dec"))

\* Lines 212-214
MergeLosses(loss_sim, loss_dec_src, loss_dec_trg) ==
    update(update(update(<<>>, loss_sim), add_prefix(loss_dec_src, "src.dec")),
           add_prefix(loss_dec_trg, "trg.dec"))

\* Lines 215-216: state_sim_feat is not among what is merged.
MergeStates(state_dec_src, state_dec_trg) ==
    update(update(<<>>, add_prefix(state_dec_src, "src.dec")),
           add_prefix(state_dec_trg, "trg.dec"))

\* Lines 218-228
MergeAux(d, aux_src, aux_trg) ==
    update(update(d, add_prefix(aux_src, "src")), add_prefix(aux_trg, "trg"))

\* t.max(dim=1)[1].unsqueeze(1): the index of the largest logit per pixel
MaxIndex(t) ==
    Tensor(t.n, 1, t.h, t.w,
           LAMBDA n, c, y, x :
               CHOOSE m \in Classes(t) :
                   /\ \A k \in Classes(t) : ~RLess(t.v[<<n, m, y, x>>], t.v[<<n, k, y, x>>])
                   /\ \A k \in 0 .. m - 1 : RLess(t.v[<<n, k, y, x>>], t.v[<<n, m, y, x>>]))

\* 1 - sim_feat.unsqueeze(1), sim_feat of shape (N, H, W)
Density(sim_feat) ==
    Tensor(sim_feat.n, 1, sim_feat.h, sim_feat.w,
           LAMBDA n, c, y, x : RSub(RInt(1), sim_feat.v[<<n, y, x>>]))

\* Lines 231-235
VisEntries(b, states, state_sim_feat) ==
    [k \in {"vis|seg_mask_src", "vis|seg_mask_trg", "vis|density_sim_feat"} |->
        CASE k = "vis|seg_mask_src" ->
                <<b.img_src, b.gt_src, MaxIndex(states["src.dec.seg_logits"].t)>>
          [] k = "vis|seg_mask_trg" ->
                <<b.img_trg, b.gt_trg, MaxIndex(states["trg.dec.seg_logits"].t)>>
          [] k = "vis|density_sim_feat" ->
                <<b.img_trg, Density(state_sim_feat.sim_feat)>>]

RECURSIVE SumValues(_, _)
SumValues(d, keys) ==
    IF keys = {} THEN 0
    ELSE LET k == CHOOSE x \in keys : TRUE IN d[k] + SumValues(d, keys \ {k})

\* BaseSegmentor._parse_losses: one scalar (the sum) and the per-name log
\* mapping, which also holds the scalar under 'loss'.
parse_losses(losses) ==
    LET loss == SumValues(losses, DOMAIN losses)
    IN [loss |-> loss, log_vars |-> update(losses, [k \in {"loss"} |-> loss])]

\* Lines 179-191: the batch is unpacked into seven names and the target
\* features are transformed.
TrainFeats ==
    /\ pc = "train_step"
    /\ LET b == call.data_batch
           feats_trg == TransformFeats(b.feats_trg, b.img_metas_trg)
       IN IF b.len # 7
          THEN /\ ret' = Raised("ValueError")
               /\ pc' = "done"
               /\ loc' = loc
          ELSE IF feats_trg.err # None
          THEN /\ ret' = feats_trg
               /\ pc' = "done"
               /\ loc' = loc
          ELSE /\ ret' = ret
               /\ pc' = "train_forward"
               /\ loc' = [loc EXCEPT !.feats_trg = feats_trg.val,
                                     !.losses = <<>>, !.states = <<>>]
    /\ UNCHANGED <<self, call>>

\* Lines 193-216: features, decode head on both domains, the similarity
\* loss, and the merge of the losses and states.
TrainForward ==
    /\ pc = "train_forward"
    /\ LET b == call.data_batch
           x_src == extract_feat(b.img_src)
           x_trg == extract_feat(b.img_trg)
       IN IF ~self.has_loss_sim_feat
          THEN /\ ret' = Raised("AttributeError")
               /\ pc' = "done"
               /\ loc' = loc
          ELSE /\ ret' = ret
               /\ pc' = "train_aux"
               /\ loc' = [loc EXCEPT
                            !.x_src = x_src,
                            !.x_trg = x_trg,
                            !.losses = MergeLosses(call.sim.loss, HeadLoss("src", 0),
                                                   HeadLoss("trg", 0)),
                            !.states = MergeStates(DetachLogits(HeadState(x_src)),
                                                   DetachLogits(HeadState(x_trg)))]
    /\ UNCHANGED <<self, call>>

\* Lines 218-228
TrainAux ==
    /\ pc = "train_aux"
    /\ LET aux_src == auxiliary_head_forward_train(loc.x_src, "src")
           aux_trg == auxiliary_head_forward_train(loc.x_trg, "trg")
       IN IF with_auxiliary_head
          THEN loc' = [loc EXCEPT
                         !.losses = MergeAux(loc.losses, aux_src.losses, aux_trg.losses),
                         !.states = MergeAux(loc.states, aux_src.states, aux_trg.states)]
          ELSE loc' = loc
    /\ pc' = "train_outputs"
    /\ UNCHANGED <<self, call, ret>>

\* Lines 231-245
TrainOutputs ==
    /\ pc = "train_outputs"
    /\ LET b == call.data_batch
           parsed == parse_losses(loc.losses)
       IN IF "sim_feat" \notin DOMAIN call.sim.state
          THEN /\ ret' = Raised("KeyError")
               /\ loc' = loc
          ELSE /\ loc' = [loc EXCEPT
                            !.states = update(loc.states,
                                              VisEntries(b, loc.states, call.sim.state))]
               /\ ret' = Returned([loss |-> parsed.loss,
                                   log_vars |-> parsed.log_vars,
                                   num_samples |-> Len(b.img_metas_src)
                                                   + Len(b.img_metas_trg),
                                   states |-> loc'.states])
    /\ pc' = "done"
    /\ UNCHANGED <<self, call>>

(***************************************************************************)
(* Specification of train_step                                             *)
(***************************************************************************)
MaxAux == 2

SimLossNames == {"loss_sim_feat", "src.dec.loss_seg"}

SimStateNames == {"sim_feat", "sim_map"}

\* What self.loss_sim_feat may return for n target samples.
SimOutputs(n) ==
    { [loss |-> [k \in ln |-> 7],
       state |-> [k \in sn |-> [n |-> n, h |-> 1, w |-> 1,
                                v |-> [i \in (0 .. n - 1) \X {0} \X {0} |-> <<1, 4>>]]]] :
        ln \in SUBSET SimLossNames, sn \in SUBSET SimStateNames }

TrainMetas ==
    { <<>>,
      [flip_horizontal |-> TRUE],
      [rotate_k |-> 1],
      [scale_factor |-> << <<2, 1>>, <<2, 1>>, <<2, 1>>, <<2, 1>> >>],
      [crop_bbox |-> <<0, 8, 0, 16>>] }

\* Precomputed target features, (N, H, W, C) = (n, 1, 2, 1)
FeatsTrg(n) ==
    [n |-> n, h |-> 1, w |-> 2, c |-> 1,
     v |-> [i \in (0 .. n - 1) \X {0} \X (0 .. 1) \X {0} |-> RInt(i[1] + 2 * i[3])]]

AuxHeads ==
    { [type |-> "None"], [type |-> "Head"] }
    \cup { [type |-> "ModuleList", len |-> k] : k \in 1 .. MaxAux }

\* The batches and similarity outputs train_step is run on.
TrainCalls ==
    UNION { { [entry |-> "train_step",
               data_batch |-> [len |-> len,
                               img_metas_src |-> [k \in 1 .. n_src |-> <<>>],
                               img_src |-> Image(n_src, 1, 1), gt_src |-> "gt_src",
                               img_metas_trg |-> metas_trg,
                               img_trg |-> Image(n_trg, 1, 1), gt_trg |-> "gt_trg",
                               feats_trg |-> FeatsTrg(n_trg)],
               sim |-> sim] :
                 n_src \in 1 .. MaxBatch, len \in {6, 7},
                 metas_trg \in [1 .. n_trg -> TrainMetas], sim \in SimOutputs(n_trg) } :
            n_trg \in 1 .. MaxBatch }

InitTrain ==
    /\ \E c \in TrainCalls : call = c
    /\ \E aux \in AuxHeads, has_sim \in BOOLEAN :
          self = [test_cfg |-> None, num_classes |-> NumClasses, align_corners |-> FALSE,
                  with_neck |-> FALSE, auxiliary_head |-> aux, has_loss_sim_feat |-> has_sim]
    /\ pc = "train_step"
    /\ loc = NoLoc
    /\ ret = Returned(None)

NextTrain == TrainFeats \/ TrainForward \/ TrainAux \/ TrainOutputs

SpecTrain == InitTrain /\ [][NextTrain]_vars

(***************************************************************************)
(* Claims about slide_inference (checked under SpecSlide)                  *)
(***************************************************************************)
ImgH == call.img.h

ImgW == call.img.w

CropH == self.test_cfg.crop_size[1]

CropW == self.test_cfg.crop_size[2]

StrideH == self.test_cfg.stride[1]

StrideW == self.test_cfg.stride[2]

\* The loop over all grid cells has run to its end.
LoopOver == pc \in {"slide_loop", "done", "inference_softmax"} /\ loc.h_idx >= loc.h_grids

SlideReturned == call.entry = "slide_inference" /\ pc = "done" /\ ret.err = None

Pixels == (0 .. ImgH - 1) \X (0 .. ImgW - 1)

CountAt(p) == loc.count_mat.v[<<0, 0, p[1], p[2]>>]

\* The crop windows of the grid, from the configuration alone.
GridWindows ==
    { <<Window(i, ImgH, CropH, StrideH), Window(j, ImgW, CropW, StrideW)>> :
        i \in 0 .. Grids(ImgH, CropH, StrideH) - 1,
        j \in 0 .. Grids(ImgW, CropW, StrideW) - 1 }

InWindow(p, win) ==
    /\ p[1] >= win[1].lo /\ p[1] < win[1].hi
    /\ p[2] >= win[2].lo /\ p[2] < win[2].hi

\* C1: with 1 <= stride <= crop on each axis (images smaller than the crop
\* included), after the loop over all grid cells every pixel of the count
\* buffer is >= 1, so the coverage assertion does not fail and the division
\* by the count buffer has no zero divisor.
C1_Coverage ==
    (LoopOver /\ StrideH <= CropH /\ StrideW <= CropW) =>
        /\ \A i \in DOMAIN loc.count_mat.v : loc.count_mat.v[i] >= 1
        /\ pc = "done" => ret.err = None

C1_Witness ==
    /\ SlideReturned /\ LoopOver
    /\ StrideH <= CropH /\ StrideW <= CropW
    /\ ImgH < CropH /\ ImgW > CropW
    /\ Len(loc.cells) > 1

\* C7: with stride = crop and the image size an exact multiple of the crop
\* size on both axes, every pixel of the count buffer is exactly 1 after the
\* loop; with stride < crop and the image larger than the crop, some pixels
\* lie in more than one crop window and every such pixel has count > 1.
C7_Overlap ==
    LoopOver =>
        /\ (StrideH = CropH /\ StrideW = CropW /\ ImgH % CropH = 0 /\ ImgW % CropW = 0) =>
              \A p \in Pixels : CountAt(p) = 1
        /\ (StrideH < CropH /\ StrideW < CropW /\ ImgH > CropH /\ ImgW > CropW) =>
              /\ \E p \in Pixels : Cardinality({win \in GridWindows : InWindow(p, win)}) > 1
              /\ \A p \in Pixels :
                    Cardinality({win \in GridWindows : InWindow(p, win)}) > 1 => CountAt(p) > 1

C7_Witness ==
    /\ SlideReturned /\ LoopOver
    /\ StrideH < CropH /\ StrideW < CropW /\ ImgH > CropH /\ ImgW > CropW
    /\ \E p \in Pixels : CountAt(p) > 1
    /\ \E p \in Pixels : CountAt(p) = 1

\* C9: the number of grid cells visited along each axis is
\* max(ceil((img_dim - crop_dim) / stride_dim) + 1, 1) for every positive
\* image size, crop size and stride; a 64x64 image with crop 32x32 and
\* stride 16x16 gives a 3x3 grid.
ExpectedGrids(img_dim, crop_dim, stride_dim) ==
    Max(CeilDiv(img_dim - crop_dim, stride_dim) + 1, 1)

C9_GridCount ==
    LoopOver =>
        /\ {cell.h_idx : cell \in {loc.cells[k] : k \in DOMAIN loc.cells}}
              = 0 .. ExpectedGrids(ImgH, CropH, StrideH) - 1
        /\ {cell.w_idx : cell \in {loc.cells[k] : k \in DOMAIN loc.cells}}
              = 0 .. ExpectedGrids(ImgW, CropW, StrideW) - 1
        /\ Len(loc.cells)
              = ExpectedGrids(ImgH, CropH, StrideH) * ExpectedGrids(ImgW, CropW, StrideW)
        /\ Grids(64, 32, 16) = 3

\* The 64 / 32 / 16 geometry scaled by 1/16.
C9_Witness ==
    /\ LoopOver /\ SlideReturned
    /\ ImgH = 4 /\ ImgW = 4 /\ CropH = 2 /\ CropW = 2 /\ StrideH = 1 /\ StrideW = 1
    /\ Len(loc.cells) = 9
    /\ \A p \in Pixels : CountAt(p) >= 1

\* C8 as stated: with crop >= image on both axes slide_inference visits one
\* grid cell whose window is the whole image, with count 1 everywhere, and
\* returns the logits whole_inference returns for the same image, metadata
\* and rescale flag.
C8_Degenerate ==
    (call.entry = "slide_inference" /\ pc = "done" /\ CropH >= ImgH /\ CropW >= ImgW) =>
        /\ ret.err = None
        /\ Len(loc.cells) = 1
        /\ loc.cells[1].wy = [lo |-> 0, hi |-> ImgH]
        /\ loc.cells[1].wx = [lo |-> 0, hi |-> ImgW]
        /\ \A p \in Pixels : CountAt(p) = 1
        /\ ret.val = whole_inference(call.img, call.img_meta, call.rescale, call.onnx).seg_logit

\* During ONNX export whole_inference rescales to the input's own size while
\* slide_inference rescales to ori_shape.
OnnxRescaleMismatch ==
    /\ call.onnx /\ call.rescale
    /\ <<call.img_meta[1].ori_shape[1], call.img_meta[1].ori_shape[2]>> # <<ImgH, ImgW>>

\* C8, amended: the same, except that the returned logits are only claimed
\* equal when the call is not a rescaling call made during ONNX export with
\* ori_shape different from the image size.
C8_DegenerateAmended ==
    (call.entry = "slide_inference" /\ pc = "done" /\ CropH >= ImgH /\ CropW >= ImgW) =>
        /\ ret.err = None
        /\ Len(loc.cells) = 1
        /\ loc.cells[1].wy = [lo |-> 0, hi |-> ImgH]
        /\ loc.cells[1].wx = [lo |-> 0, hi |-> ImgW]
        /\ \A p \in Pixels : CountAt(p) = 1
        /\ ~OnnxRescaleMismatch =>
              ret.val = whole_inference(call.img, call.img_meta, call.rescale, call.onnx).seg_logit

C8_Witness ==
    /\ SlideReturned /\ CropH > ImgH /\ CropW >= ImgW
    /\ call.rescale /\ ~call.onnx /\ ImgH > 1 /\ ImgW > 1
    /\ ret.val = whole_inference(call.img, call.img_meta, call.rescale, call.onnx).seg_logit


(***************************************************************************)
(* Claims about inference, simple_test and aug_test (checked under         *)
(* SpecTest)                                                               *)
(***************************************************************************)
\* C2: aug_test called with a single view (rescale = True) returns the
\* per-sample prediction maps obtained by calling inference once on that
\* view and taking the arg-max over the class axis of its probabilities.
\* loc.i = 1 says that the one call of inference has returned; loc.output
\* is what it returned.
C2_SingleViewEquivalence ==
    (call.entry = "aug_test" /\ pc = "done" /\ Len(call.imgs) = 1 /\ loc.i = 1) =>
        /\ ret.err = None
        /\ ret.val = seg_pred_list(loc.output)

\* C3: in each of the modes 'slide' and 'whole', simple_test on a batch of N
\* samples outside ONNX export, once inference has returned, returns N
\* prediction maps and N state dictionaries, each holding the sample's
\* 'feats' and 'seg_logits' sliced from the state inference returned.
C3_SimpleTestStates ==
    (/\ call.entry = "simple_test" /\ pc = "done" /\ ~call.onnx
     /\ ret.err \notin {"AssertionError", "BdbQuit"}) =>
        /\ ret.err = None
        /\ Len(ret.val[1]) = call.img.n
        /\ Len(ret.val[2]) = call.img.n
        /\ \A k \in 1 .. call.img.n :
              /\ ret.val[1][k] = argmax(loc.output)[k - 1]
              /\ ret.val[2][k].feats
                    = [j \in DOMAIN loc.states.feats |-> Sample(loc.states.feats[j], k - 1)]
              /\ ret.val[2][k].seg_logits = Sample(loc.states.seg_logits, k - 1)

\* C6: inference on a flipped view runs to completion without ever waiting
\* on anything outside the call, and returns the softmax probabilities
\* mirrored along the width axis for 'horizontal' and along the height axis
\* for 'vertical'; an unflipped view is returned unmirrored.
C6_FlipSynchronous ==
    call.entry = "inference" =>
        /\ pc # "pdb"
        /\ (pc = "done" /\ ret.err = None) =>
              ret.val[1] =
                 IF loc.img_meta[1].flip /\ loc.img_meta[1].flip_direction = "horizontal"
                 THEN FlipW(softmax(loc.seg_logit))
                 ELSE IF loc.img_meta[1].flip /\ loc.img_meta[1].flip_direction = "vertical"
                 THEN FlipH(softmax(loc.seg_logit))
                 ELSE softmax(loc.seg_logit)


(***************************************************************************)
(* Claims about transform_by_metas (checked under SpecMeta)                *)
(***************************************************************************)
RecognisedKeys == {"scale_factor", "crop_bbox", "rotate_k", "flip_horizontal", "flip_vertical"}

\* C4: transform_by_metas accepts metadata with any subset of the keys
\* scale_factor, crop_bbox, rotate_k, flip_horizontal, flip_vertical: an
\* absent key never causes an error (no KeyError is raised), and with none
\* of these keys present the input tensor is returned unchanged.
C4_AnySubset ==
    (call.entry = "transform_by_metas" /\ pc = "done") =>
        /\ ret.err # "KeyError"
        /\ (DOMAIN call.metas \cap RecognisedKeys = {}) => ret = Returned(call.data)

\* C10: in the scale step w_scale resizes the width axis and h_scale the
\* height axis: an input of spatial size (H, W) comes out with height
\* floor(H * h_scale) and width floor(W * w_scale), also when the two
\* factors differ and there is no crop_bbox (and no rotation after it).
C10_ScaleAxes ==
    (/\ call.entry = "transform_by_metas" /\ pc = "done" /\ ret.err = None
     /\ Has(call.metas, "scale_factor")
     /\ ~Has(call.metas, "crop_bbox") /\ ~Has(call.metas, "rotate_k")) =>
        /\ ret.val.h = ScaledSize(call.data.h, call.metas.scale_factor[2])
        /\ ret.val.w = ScaledSize(call.data.w, call.metas.scale_factor[1])


(***************************************************************************)
(* Claims about train_step (checked under SpecTrain)                       *)
(***************************************************************************)
TrainReturned == call.entry = "train_step" /\ pc = "done" /\ ret.err = None

\* The keys the decode and auxiliary heads contribute; all carry a prefix.
PrefixedLossKeys == { k \in DOMAIN loc.losses : k \notin DOMAIN call.sim.loss }
                    \cup {"src.dec.loss_seg", "src.dec.acc_seg",
                          "trg.dec.loss_seg", "trg.dec.acc_seg"}

VisKeys == {"vis|seg_mask_src", "vis|seg_mask_trg", "vis|density_sim_feat"}

\* C5 as stated: after train_step the similarity loss's entries are in the
\* aggregated losses under their own names with no prefix, and every entry
\* of the similarity loss's auxiliary state is in the returned state mapping
\* under its own name with no prefix.
C5_SimMerged ==
    TrainReturned =>
        /\ \A k \in DOMAIN call.sim.loss : k \in DOMAIN loc.losses
        /\ \A k \in DOMAIN call.sim.state :
              /\ k \in DOMAIN ret.val.states
              /\ ret.val.states[k] = call.sim.state[k]

\* C5, amended: the similarity loss's entries are in the aggregated losses
\* (and in log_vars) under their own names with no prefix, with the
\* similarity loss's value unless a prefixed head entry has the same name;
\* the similarity loss's auxiliary state is not merged into the returned
\* state mapping, whose keys are the prefixed head states and the three
\* vis| entries only; its 'sim_feat' entry is returned as 1 - sim_feat in
\* 'vis|density_sim_feat'.
C5_SimMergedAmended ==
    TrainReturned =>
        /\ \A k \in DOMAIN call.sim.loss :
              /\ k \in DOMAIN loc.losses
              /\ k \in DOMAIN ret.val.log_vars
              /\ k \notin PrefixedLossKeys => loc.losses[k] = call.sim.loss[k]
        /\ \A k \in DOMAIN call.sim.state : k \notin DOMAIN ret.val.states
        /\ \A k \in DOMAIN ret.val.states :
              \/ k \in VisKeys
              \/ \E name \in {"dec.seg_logits", "aux.seg_logits"}
                              \cup { "aux_" \o ToString(i) \o ".seg_logits" : i \in 0 .. MaxAux } :
                     k \in {"src." \o name, "trg." \o name}
        /\ ret.val.states["vis|density_sim_feat"]
              = <<call.data_batch.img_trg, Density(call.sim.state.sim_feat)>>

C5_Witness ==
    /\ TrainReturned
    /\ DOMAIN call.sim.loss = {"loss_sim_feat"}
    /\ DOMAIN call.sim.state = SimStateNames
    /\ loc.losses["loss_sim_feat"] = 7
    /\ with_auxiliary_head
    /\ Len(call.data_batch.img_metas_trg) > 1

====
